---- MODULE Spec2Model ----
(***************************************************************************)
(* t.ex-graph converter: a model of Controller (gexf / process / pipe),    *)
(* Wdg (addNode / addEdge / process / attributes), Features (the registry  *)
(* of extract / accumulate / set triples) and Util.                        *)
(*                                                                         *)
(* JavaScript values are modelled as follows.                              *)
(*   - strings are TLA+ strings, handled character by character with Len,  *)
(*     SubSeq and \o;                                                      *)
(*   - an optional property is a sequence of length 0 (undefined) or 1;    *)
(*   - a graph attribute value is a tagged record: a number (a reduced     *)
(*     fraction num/den, because Util.ratio divides), null, a string, or   *)
(*     the marker of a thrown TypeError.                                   *)
(* options.silent and options.output only drive the console and the name   *)
(* of the output file; they are not part of the state.                     *)
(***************************************************************************)
EXTENDS Integers, Sequences, FiniteSets, TLC

(***************************************************************************)
(* Bounds of the model.                                                    *)
(***************************************************************************)
\* the largest number of *.json batch files in the input directory
MaxFiles == 2
\* the largest number of records delivered in one run, over all batch files
MaxRecords == 2

(***************************************************************************)
(* Optional values and strings.                                            *)
(***************************************************************************)
Undefined == <<>>

Some(v) == <<v>>

IsDef(o) == o # <<>>

\* JavaScript truthiness of an optional string: undefined and "" are falsy
Truthy(o) == IsDef(o) /\ o[1] # ""

Min(S) == CHOOSE m \in S : \A k \in S : m <= k

Max(a, b) == IF a >= b THEN a ELSE b

\* String.prototype.indexOf, 1-based, 0 when sub does not occur at or after i
IndexOfFrom(s, sub, i) ==
  LET hits == { j \in i..(Len(s) - Len(sub) + 1) : SubSeq(s, j, j + Len(sub) - 1) = sub }
  IN  IF hits = {} THEN 0 ELSE Min(hits)

IndexOf(s, sub) == IndexOfFrom(s, sub, 1)

StartsWith(s, p) == Len(s) >= Len(p) /\ SubSeq(s, 1, Len(p)) = p

EndsWith(s, p) == Len(s) >= Len(p) /\ SubSeq(s, Len(s) - Len(p) + 1, Len(s)) = p

\* String.prototype.split with a non-empty separator
RECURSIVE Split(_, _)
Split(s, sep) ==
  LET j == IndexOf(s, sep)
  IN  IF j = 0 THEN <<s>>
      ELSE <<SubSeq(s, 1, j - 1)>> \o Split(SubSeq(s, j + Len(sep), Len(s)), sep)

\* Array.prototype.filter(Boolean) on an array of strings
FilterNonEmpty(parts) == SelectSeq(parts, LAMBDA p : p # "")

\* Array.prototype.join
RECURSIVE Join(_, _)
Join(parts, sep) ==
  IF Len(parts) = 0 THEN ""
  ELSE IF Len(parts) = 1 THEN parts[1]
  ELSE parts[1] \o sep \o Join(Tail(parts), sep)

UpperChars == "ABCDEFGHIJKLMNOPQRSTUVWXYZ"

LowerChars == "abcdefghijklmnopqrstuvwxyz"

Chars(s) == { SubSeq(s, i, i) : i \in 1..Len(s) }

\* the lower-case letter of every upper-case letter
LowerOf ==
  [c \in Chars(UpperChars) |->
     LET j == IndexOf(UpperChars, c) IN SubSeq(LowerChars, j, j)]

LowerChar(c) == IF c \in DOMAIN LowerOf THEN LowerOf[c] ELSE c

\* String.prototype.toLowerCase
RECURSIVE ToLowerCase(_)
ToLowerCase(s) ==
  IF Len(s) = 0 THEN ""
  ELSE LowerChar(SubSeq(s, 1, 1)) \o ToLowerCase(SubSeq(s, 2, Len(s)))

Letters == Chars(UpperChars) \cup Chars(LowerChars)

IsAlpha(s) == \A i \in 1..Len(s) : SubSeq(s, i, i) \in Letters

(***************************************************************************)
(* URLs: the WHATWG URL class, validator.isURL and tldjs.getDomain, as far *)
(* as the program uses them.                                               *)
(***************************************************************************)
\* the part of s before the first occurrence of sep (all of s when none)
Before(s, sep) ==
  LET j == IndexOf(s, sep) IN IF j = 0 THEN s ELSE SubSeq(s, 1, j - 1)

\* the part of s after the first occurrence of sep ("" when none)
After(s, sep) ==
  LET j == IndexOf(s, sep) IN IF j = 0 THEN "" ELSE SubSeq(s, j + Len(sep), Len(s))

\* what follows "scheme://" up to the path, the query or the fragment
Authority(u) == Before(Before(Before(After(u, "://"), "#"), "?"), "/")

\* new URL(u).hostname: the host without a port, in lower case
Hostname(u) == ToLowerCase(Before(Authority(u), ":"))

\* new URL(u).pathname: "/" when the URL has no path
Pathname(u) ==
  LET rest == Before(Before(After(u, "://"), "#"), "?")
      j    == IndexOf(rest, "/")
  IN  IF j = 0 THEN "/" ELSE SubSeq(rest, j, Len(rest))

\* [...new URL(u).searchParams.entries()]: the non-empty pieces of the query
SearchParams(u) == FilterNonEmpty(Split(After(Before(u, "#"), "?"), "&"))

\* a faulty variant of urlOptions: ftp is accepted as a protocol too
urlOptionsWithFtp == [protocols |-> {"http", "https", "ftp"}, require_protocol |-> TRUE]

urlOptions == [protocols |-> {"http", "https"}, require_protocol |-> TRUE]

\* validator.isFQDN with require_tld: at least two non-empty labels, the last
\* one alphabetic and at least two characters long
IsFQDNParts(parts) ==
  /\ Len(parts) >= 2
  /\ Len(parts[Len(parts)]) >= 2
  /\ IsAlpha(parts[Len(parts)])
  /\ \A i \in 1..Len(parts) : parts[i] # ""

IsFQDN(host) == IsFQDNParts(Split(host, "."))

\* validator.isURL, once the protocol is split off: the protocol is one of
\* options.protocols (it is required when require_protocol is set), and what
\* follows starts with a host that is an FQDN
IsURLParts(parts, options) ==
  /\ IF Len(parts) > 1
       THEN ToLowerCase(parts[1]) \in options.protocols
       ELSE ~options.require_protocol
  /\ Join(IF Len(parts) > 1 THEN Tail(parts) ELSE parts, "://") # ""
  /\ IsFQDN(Before(Before(Join(IF Len(parts) > 1 THEN Tail(parts) ELSE parts, "://"),
                          "/"), ":"))

\* validator.isURL(url, options): no blank, and the checks of IsURLParts on
\* the url without its fragment and its query
IsURL(url, options) ==
  /\ url # ""
  /\ IndexOf(url, " ") = 0
  /\ IsURLParts(Split(Before(Before(url, "#"), "?"), "://"), options)

\* whether new URL(x) returns: it throws a TypeError for undefined and for a
\* string without a scheme
CanParse(o) == IsDef(o) /\ IndexOf(o[1], "://") > 1

\* new String(x): undefined becomes the string "undefined"
NewString(o) == IF IsDef(o) THEN o[1] ELSE "undefined"

\* the public suffix rules known to the model; any other top-level label is
\* a suffix of its own (the list's default rule)
PublicSuffixes == {"com", "uk", "co.uk"}

LastLabels(labels, k) == Join(SubSeq(labels, Len(labels) - k + 1, Len(labels)), ".")

\* tldjs.getDomain(hostname): the public suffix and one more label, or null
\* (Undefined) when the host name is itself a public suffix
\* the number of labels of the longest public suffix of a host name
SuffixLength(labels) ==
  Max(1, Cardinality({ k \in 1..Len(labels) :
                        \E m \in k..Len(labels) : LastLabels(labels, m) \in PublicSuffixes }))

DomainOf(labels, k) ==
  IF Len(labels) <= k THEN Undefined ELSE Some(LastLabels(labels, k + 1))

getDomain(hostname) ==
  DomainOf(Split(hostname, "."), SuffixLength(Split(hostname, ".")))

\* '' + x for a host key: null becomes the string "null"
NodeKey(o) == IF IsDef(o) THEN o[1] ELSE "null"

(***************************************************************************)
(* Util.js                                                                 *)
(***************************************************************************)
\* Util.count
UtilCount(condition, value) == IF condition THEN value + 1 ELSE value

\* Util.max
UtilMax(x, y) == Max(x, y)

\* a faulty variant of Util.header: the names are compared as they are written
UtilHeaderExact(headers, key) ==
  LET hs   == IF IsDef(headers) THEN headers[1] ELSE <<>>
      hits == { i \in 1..Len(hs) : hs[i].name = key }
  IN  IF hits = {} THEN Undefined ELSE Some(hs[Min(hits)])

\* Util.header(headers, key): the first header whose name matches key, case
\* insensitively; undefined headers count as an empty array
UtilHeader(headers, key) ==
  LET hs   == IF IsDef(headers) THEN headers[1] ELSE <<>>
      hits == { i \in 1..Len(hs) : ToLowerCase(hs[i].name) = ToLowerCase(key) }
  IN  IF hits = {} THEN Undefined ELSE Some(hs[Min(hits)])

\* Util.target(r): the request's url, else the response's url
UtilTarget(r) ==
  IF Truthy(r.url) THEN r.url
  ELSE IF IsDef(r.response) /\ Truthy(r.response[1].url) THEN r.response[1].url
  ELSE Undefined

\* Util.source(r): the initiator, else the Referer header, else the Origin header
UtilSource(r) ==
  IF Truthy(r.initiator) THEN r.initiator
  ELSE IF IsDef(r.requestHeaders)
    THEN LET referer == UtilHeader(r.requestHeaders, "referer")
             origin  == UtilHeader(r.requestHeaders, "origin")
         IN  IF IsDef(referer) THEN Some(referer[1].value)
             ELSE IF IsDef(origin) THEN Some(origin[1].value)
             ELSE Undefined
  ELSE Undefined

\* Util.params(r): the query parameters of the target URL
UtilParams(r) == SearchParams(UtilTarget(r)[1])

\* Util.cookie(r): the fields of the Cookie request header
UtilCookie(r) ==
  LET c == UtilHeader(r.requestHeaders, "cookie")
  IN  IF IsDef(c) THEN Split(c[1].value, ";") ELSE <<>>

(***************************************************************************)
(* Attribute values of the graph.                                          *)
(***************************************************************************)
RECURSIVE GCD(_, _)
GCD(a, b) == IF b = 0 THEN a ELSE GCD(b, a % b)

\* the number a / b (b > 0), as a reduced fraction
Frac(a, b) ==
  LET g == GCD(a, b) IN [type |-> "number", num |-> a \div g, den |-> b \div g]

Num(n) == [type |-> "number", num |-> n, den |-> 1]

Null == [type |-> "null"]

Str(s) == [type |-> "string", str |-> s]

\* the TypeError raised by reading a property of undefined
TypeError == [type |-> "TypeError"]

\* JavaScript's ToNumber on an edge accumulator: null counts as 0
ToNumber(v) == IF v.type = "number" THEN v.num ELSE 0

\* acc + k
Plus(acc, k) == Num(ToNumber(acc) + k)

\* a faulty variant of Util.ratio: the division is not guarded
UtilRatioUnguarded(dividend, divisor) ==
  IF divisor = 0 THEN [type |-> "NaN"] ELSE Frac(dividend, divisor)

\* Util.ratio
UtilRatio(dividend, divisor) ==
  IF divisor > 0 THEN Frac(dividend, divisor) ELSE Num(0)

(***************************************************************************)
(* Features.js                                                             *)
(***************************************************************************)
requestTypes ==
  << "xmlhttprequest", "image", "font", "script", "stylesheet", "ping",
     "sub_frame", "other", "main_frame", "csp_report", "object", "media" >>

requestMethods ==
  << "GET", "POST", "OPTIONS", "HEAD", "PUT", "DELETE", "SEARCH", "PATCH" >>

Range(seq) == { seq[i] : i \in 1..Len(seq) }

\* stringComparison: false when either string is undefined or empty
stringComparison(extractedValue, seekedValue) ==
  /\ Truthy(extractedValue)
  /\ seekedValue # ""
  /\ ToLowerCase(extractedValue[1]) = ToLowerCase(seekedValue)

\* Object.keys(Features), in the order the registry is built
FeatureKeys ==
  requestTypes \o requestMethods \o
  << "count", "tracking", "firstPartyDisclosed", "cookiesSet", "thirdPartyCookie",
     "avgUrlLength", "avgReqPerNeighbor", "avgQpPerReq", "avgQpPerNeighbor",
     "avgRhPerRq", "avgRhPerNeighbor", "avgRespHPerRq", "avgRespHPerNeighbor",
     "avgCookieFieldsPerRq", "avgCookieFieldsPerNeighbor", "maxSubdomainDepth",
     "avgSubdomainLength", "avgPathLength" >>

FeatureNames == Range(FeatureKeys)

\* the generated one-hot features: the request's type or method is the key
GenerateExtract(val, r, accu) ==
  LET feature == IF val \in Range(requestTypes) THEN r.type ELSE r.method
  IN  IF stringComparison(feature, val) THEN Plus(accu, 1) ELSE accu

trackingExtract(r, acc) ==
  IF ~IsDef(r.labels) THEN TypeError
  ELSE LET isTracking == \E i \in 1..Len(r.labels[1]) : r.labels[1][i].isLabeled
       IN  IF isTracking THEN Plus(acc, 1) ELSE acc

firstPartyDisclosedExtract(r, acc) ==
  LET referer == UtilHeader(r.requestHeaders, "referer")
      origin  == UtilHeader(r.requestHeaders, "origin")
  IN  IF IsDef(referer) \/ IsDef(origin) THEN Plus(acc, 1) ELSE acc

cookiesSetExtract(r, acc) ==
  IF ~IsDef(r.response) THEN TypeError
  ELSE IF IsDef(UtilHeader(r.response[1].responseHeaders, "set-cookie"))
    THEN Plus(acc, 1)
    ELSE acc

\* a faulty variant of the thirdPartyCookie extract: every request between two
\* second-level domains counts, with or without a Set-Cookie header
thirdPartyCookieAnyResponse(r, acc) ==
  IF ~IsDef(r.response) THEN TypeError
  ELSE IF getDomain(Hostname(UtilTarget(r)[1])) # getDomain(Hostname(UtilSource(r)[1]))
    THEN Plus(acc, 1)
    ELSE acc

thirdPartyCookieExtract(r, acc) ==
  LET target == getDomain(Hostname(UtilTarget(r)[1]))
      source == getDomain(Hostname(UtilSource(r)[1]))
  IN  IF ~IsDef(r.response) THEN TypeError
      ELSE IF target # source /\ IsDef(UtilHeader(r.response[1].responseHeaders, "set-cookie"))
        THEN Plus(acc, 1)
        ELSE acc

avgUrlLengthExtract(r, acc) == Plus(acc, Len(UtilTarget(r)[1]))

avgReqPerNeighborExtract(r, acc) == Null

avgQpExtract(r, acc) == Plus(acc, Len(UtilParams(r)))

avgRhExtract(r, acc) ==
  IF ~IsDef(r.requestHeaders) THEN TypeError
  ELSE Plus(acc, Len(r.requestHeaders[1]))

avgRespHExtract(r, acc) ==
  IF ~IsDef(r.response) \/ ~IsDef(r.response[1].responseHeaders) THEN TypeError
  ELSE Plus(acc, Len(r.response[1].responseHeaders[1]))

avgCookieFieldsExtract(r, acc) == Plus(acc, Len(UtilCookie(r)))

\* hostname.split(sld).filter(Boolean): what is left of the target's host name
\* once its second-level domain is cut out
SubdomainOf(hostname) == FilterNonEmpty(Split(hostname, NodeKey(getDomain(hostname))))

Subdomain(r) == SubdomainOf(Hostname(UtilTarget(r)[1]))

\* subdomain.shift().split('.').filter(Boolean).length, folded with Util.max
MaxDepth(subdomain, acc) ==
  IF Len(subdomain) = 0 THEN acc
  ELSE Num(UtilMax(ToNumber(acc), Len(FilterNonEmpty(Split(subdomain[1], ".")))))

maxSubdomainDepthExtract(r, acc) == MaxDepth(Subdomain(r), acc)

AddLength(subdomain, acc) ==
  IF Len(subdomain) = 0 THEN acc ELSE Plus(acc, Len(subdomain[1]))

avgSubdomainLengthExtract(r, acc) == AddLength(Subdomain(r), acc)

avgPathLengthExtract(r, acc) == Plus(acc, Len(Pathname(UtilTarget(r)[1])))

\* Features[feature].extract(r, acc): the new accumulator, or TypeError
Extract(feature, r, acc) ==
  CASE feature = "count"                      -> Plus(acc, 1)
    [] feature = "tracking"                   -> trackingExtract(r, acc)
    [] feature = "firstPartyDisclosed"        -> firstPartyDisclosedExtract(r, acc)
    [] feature = "cookiesSet"                 -> cookiesSetExtract(r, acc)
    [] feature = "thirdPartyCookie"           -> thirdPartyCookieExtract(r, acc)
    [] feature = "avgUrlLength"               -> avgUrlLengthExtract(r, acc)
    [] feature = "avgReqPerNeighbor"          -> avgReqPerNeighborExtract(r, acc)
    [] feature = "avgQpPerReq"                -> avgQpExtract(r, acc)
    [] feature = "avgQpPerNeighbor"           -> avgQpExtract(r, acc)
    [] feature = "avgRhPerRq"                 -> avgRhExtract(r, acc)
    [] feature = "avgRhPerNeighbor"           -> avgRhExtract(r, acc)
    [] feature = "avgRespHPerRq"              -> avgRespHExtract(r, acc)
    [] feature = "avgRespHPerNeighbor"        -> avgRespHExtract(r, acc)
    [] feature = "avgCookieFieldsPerRq"       -> avgCookieFieldsExtract(r, acc)
    [] feature = "avgCookieFieldsPerNeighbor" -> avgCookieFieldsExtract(r, acc)
    [] feature = "maxSubdomainDepth"          -> maxSubdomainDepthExtract(r, acc)
    [] feature = "avgSubdomainLength"         -> avgSubdomainLengthExtract(r, acc)
    [] feature = "avgPathLength"              -> avgPathLengthExtract(r, acc)
    [] OTHER                                  -> GenerateExtract(feature, r, acc)

\* whether Features[feature] declares an accumulate of its own
HasAccumulate(feature) == feature = "maxSubdomainDepth"

\* a faulty variant of the fold: the value of the edge replaces the running one
AccumulateLast(feature, x, y) == ToNumber(y)

\* Features[feature].accumulate(x, y), or x + y for a feature that declares none
Accumulate(feature, x, y) ==
  IF HasAccumulate(feature) THEN UtilMax(x, ToNumber(y)) ELSE x + ToNumber(y)

\* the features whose set divides by the node's indegree
PerNeighbor ==
  { "cookiesSet", "avgQpPerNeighbor", "avgRhPerNeighbor", "avgRespHPerNeighbor",
    "avgCookieFieldsPerNeighbor" }

\* Features[feature].set(feature, attrs): attrs holds the accumulated value of
\* every feature, and the indegree
Set(feature, attrs) ==
  CASE feature = "count"             -> Num(attrs.count)
    [] feature = "maxSubdomainDepth" -> Num(attrs[feature])
    [] feature = "thirdPartyCookie"  -> UtilRatio(attrs[feature], attrs.cookiesSet)
    [] feature = "avgReqPerNeighbor" -> UtilRatio(attrs.count, attrs.indegree)
    [] feature \in PerNeighbor       -> UtilRatio(attrs[feature], attrs.indegree)
    [] OTHER                         -> UtilRatio(attrs[feature], attrs.count)

(***************************************************************************)
(* Wdg.js: the graph (graphology's Graph: a map of nodes, and the directed *)
(* edges in the order they were added) and the methods of Wdg.             *)
(***************************************************************************)
EmptyGraph == [nodes |-> <<>>, edges |-> <<>>]

\* graph.hasNode
HasNode(g, node) == node \in DOMAIN g.nodes

\* the positions of the edges source -> target
EdgeIndexes(g, source, target) ==
  { i \in 1..Len(g.edges) : g.edges[i].source = source /\ g.edges[i].target = target }

\* graph.hasEdge
HasEdge(g, source, target) == EdgeIndexes(g, source, target) # {}

\* a faulty variant of Wdg.addNode: the attributes of an existing node are
\* replaced, not merged
addNodeReplacing(g, node, attrs) == [g EXCEPT !.nodes = (node :> attrs) @@ g.nodes]

\* Wdg.addNode: create the node, or merge attrs into its attributes
addNode(g, node, attrs) ==
  IF ~HasNode(g, node)
    THEN [g EXCEPT !.nodes = (node :> attrs) @@ g.nodes]
    ELSE [g EXCEPT !.nodes = [g.nodes EXCEPT ![node] = attrs @@ g.nodes[node]]]

\* a faulty variant of the attribute map: a key is only set when its extract
\* returns a truthy value
ExtractAllTruthy(r, attr) ==
  LET value(val) == Extract(val, r, IF val \in DOMAIN attr THEN attr[val] ELSE Num(0))
  IN  [val \in { v \in FeatureNames : value(v) \notin {Num(0), Null} } |-> value(val)]

\* the attribute map addEdge builds: one extract per key of the registry,
\* seeded with 0 for a new edge and with the current value for an existing one
ExtractAll(r, attr) ==
  [val \in FeatureNames |->
     Extract(val, r, IF val \in DOMAIN attr THEN attr[val] ELSE Num(0))]

\* the attributes of the edge at position i (none for i = 0: a new edge)
AttributesAt(g, i) == IF i = 0 THEN <<>> ELSE g.edges[i].attributes

\* graph.addEdge (i = 0) or graph.updateEdge (the edge at i) with attrs; a
\* throw of an extract comes before either
PutEdge(g, source, target, i, attrs) ==
  IF \E val \in DOMAIN attrs : attrs[val] = TypeError
    THEN [graph |-> g, threw |-> TRUE]
  ELSE IF i = 0
    THEN [graph |-> [g EXCEPT !.edges =
                       Append(g.edges, [source |-> source, target |-> target,
                                        attributes |-> attrs])],
          threw |-> FALSE]
  ELSE [graph |-> [g EXCEPT !.edges[i].attributes = attrs], threw |-> FALSE]

\* the position of the edge source -> target, 0 when graph.hasEdge is false
EdgeIndex(g, source, target) ==
  IF HasEdge(g, source, target) THEN Min(EdgeIndexes(g, source, target)) ELSE 0

AddEdgeAt(g, source, target, r, i) ==
  PutEdge(g, source, target, i, ExtractAll(r, AttributesAt(g, i)))

\* Wdg.addEdge: the graph after the call, and whether an extract threw (then
\* graph.addEdge / graph.updateEdge never got the attributes)
addEdge(g, source, target, r) ==
  AddEdgeAt(g, source, target, r, EdgeIndex(g, source, target))

\* Wdg.process, lines 160-163: source or target is no valid http/https URL
Invalid(source, target) ==
  \/ ~IsURL(NewString(source), urlOptions)
  \/ ~IsURL(NewString(target), urlOptions)

\* a faulty variant of the first-party test: the option is read the wrong way
ExcludedInverted(isFp, options) == isFp /\ options.firstParty

\* Wdg.process, line 175: a first-party request that the options exclude
Excluded(isFp, options) == isFp /\ ~options.firstParty

\* Wdg.process, lines 179-182: the node key of a host
HostKey(hostname, sld, options) == IF options.sld THEN NodeKey(sld) ELSE hostname

\* Wdg.process, lines 184-185: { label: <the node key, null for a host without
\* a second-level domain in SLD mode> }
HostLabel(hostname, sld, options) ==
  IF options.sld
    THEN [label |-> IF IsDef(sld) THEN Str(sld[1]) ELSE Null]
    ELSE [label |-> Str(hostname)]

\* Wdg.process, lines 184-186: both nodes, then the edge
AddNodesAndEdge(g, s, sLabel, t, tLabel, r) ==
  addEdge(addNode(addNode(g, s, sLabel), t, tLabel), s, t, r)

\* Wdg.process, lines 168-186, for the host names of source and target and
\* their second-level domains
ProcessHosts(g, r, options, sourceHost, targetHost, sldSource, sldTarget) ==
  IF Excluded(sldSource = sldTarget, options) THEN [graph |-> g, threw |-> FALSE]
  ELSE AddNodesAndEdge(g, HostKey(sourceHost, sldSource, options),
                          HostLabel(sourceHost, sldSource, options),
                          HostKey(targetHost, sldTarget, options),
                          HostLabel(targetHost, sldTarget, options), r)

\* Wdg.process, lines 160-186, for the source and the target Util resolved
ProcessResolved(g, r, options, source, target) ==
  IF Invalid(source, target) THEN [graph |-> g, threw |-> FALSE]
  ELSE IF ~CanParse(source) \/ ~CanParse(target) THEN [graph |-> g, threw |-> TRUE]
  ELSE ProcessHosts(g, r, options, Hostname(source[1]), Hostname(target[1]),
                    getDomain(Hostname(source[1])), getDomain(Hostname(target[1])))

\* Wdg.process(r, options): the graph after the call, and whether it threw
WdgProcess(g, r, options) == ProcessResolved(g, r, options, UtilSource(r), UtilTarget(r))

\* a faulty variant of the in-edges: every edge at node, in or out
IncidentEdges(g, node) ==
  SelectSeq(g.edges, LAMBDA e : e.target = node \/ e.source = node)

\* graph.reduceInEdges(node, ..., seed): the edges into node, in graph order
InEdges(g, node) == SelectSeq(g.edges, LAMBDA e : e.target = node)

\* the callback of reduceInEdges: fold the attributes of one edge into acc
FoldEdge(acc, attr) ==
  [key \in DOMAIN attr |-> Accumulate(key, acc[key], attr[key])] @@ acc

RECURSIVE ReduceEdges(_, _)
ReduceEdges(edges, acc) ==
  IF Len(edges) = 0 THEN acc
  ELSE ReduceEdges(Tail(edges), FoldEdge(acc, Head(edges).attributes))

\* the accumulated features of a node: every feature starts at 0
NodeFeatures(g, node) ==
  ReduceEdges(InEdges(g, node), [val \in FeatureNames |-> 0])

\* graph.inDegree
InDegree(g, node) == Len(InEdges(g, node))

\* Features[feature].set for every accumulated feature
SetAll(features, indegree) ==
  [feature \in DOMAIN features |-> Set(feature, features @@ [indegree |-> indegree])]

\* a faulty variant of the node update: the computed features replace the
\* attribute map of the node
NodeAttributesReplaced(g, node) == SetAll(NodeFeatures(g, node), InDegree(g, node))

\* the attributes of a node after Wdg.attributes: one setNodeAttribute per feature
NodeAttributes(g, node) ==
  SetAll(NodeFeatures(g, node), InDegree(g, node)) @@ g.nodes[node]

\* Wdg.attributes()
WdgAttributes(g) ==
  [g EXCEPT !.nodes = [node \in DOMAIN g.nodes |-> NodeAttributes(g, node)]]

(***************************************************************************)
(* The inputs: request records, as the webRequest interface exports them,  *)
(* and the directory that is given on the command line.                    *)
(***************************************************************************)
Hdr(name, value) == [name |-> name, value |-> value]

Resp(url, responseHeaders) == Some([url |-> url, responseHeaders |-> responseHeaders])

Req(url, initiator, requestHeaders, response, labels, type, method) ==
  [url |-> url, initiator |-> initiator, requestHeaders |-> requestHeaders,
   response |-> response, labels |-> labels, type |-> type, method |-> method]

Label(isLabeled) == [isLabeled |-> isLabeled]

PlainHeaders == Some(<< Hdr("User-Agent", "x") >>)

PlainResponse(url) == Resp(Some(url), Some(<< Hdr("Content-Type", "text/html") >>))

\* a.com -> b.com, the response sets a cookie, no Referer
ReqCookie ==
  Req(Some("http://b.com/"), Some("http://a.com"), PlainHeaders,
      Resp(Some("http://b.com/"), Some(<< Hdr("Set-Cookie", "id=1") >>)),
      Some(<<>>), Some("image"), Some("GET"))

\* a.com -> b.com with a Referer header, labelled as tracking
ReqReferer ==
  Req(Some("http://b.com/"), Some("http://a.com"),
      Some(<< Hdr("Referer", "http://a.com/") >>),
      PlainResponse("http://b.com/"),
      Some(<< Label(TRUE) >>), Some("script"), Some("GET"))

\* w.a.com -> x.b.com: sub-domains on both sides, a query, a Cookie header
ReqSub ==
  Req(Some("https://X.b.com/p?q=1&r=2"), Some("https://w.a.com"),
      Some(<< Hdr("Cookie", "a=1; b=2"), Hdr("Origin", "https://w.a.com") >>),
      Resp(Some("https://x.b.com/p?q=1&r=2"), Some(<< Hdr("set-cookie", "s=1") >>)),
      Some(<< Label(FALSE), Label(TRUE) >>), Some("xmlhttprequest"), Some("post"))

\* w.a.com -> a.com: two hosts of one second-level domain, a cookie is set
ReqSameSld ==
  Req(Some("http://a.com/"), Some("http://w.a.com"), PlainHeaders,
      Resp(Some("http://a.com/"), Some(<< Hdr("Set-Cookie", "id=2") >>)),
      Some(<<>>), Some("main_frame"), Some("GET"))

\* a.com -> a.com: one host on both sides
ReqSelf ==
  Req(Some("http://a.com/index"), Some("http://a.com"), PlainHeaders,
      PlainResponse("http://a.com/index"), Some(<<>>), Some("image"), Some("GET"))

\* b.com -> a.com
ReqBack ==
  Req(Some("http://a.com/"), Some("http://b.com"), PlainHeaders,
      PlainResponse("http://a.com/"), Some(<< Label(FALSE) >>), Some("font"), Some("HEAD"))

\* no initiator: the source is the Referer header
ReqSourceFromReferer ==
  Req(Some("http://b.com/"), Undefined,
      Some(<< Hdr("Referer", "http://a.com/page") >>),
      PlainResponse("http://b.com/"), Some(<<>>), Some("image"), Some("GET"))

\* no request url: the target is the response's url
ReqTargetFromResponse ==
  Req(Undefined, Some("http://a.com"), PlainHeaders,
      PlainResponse("http://b.com/img"), Some(<<>>), Some("image"), Some("GET"))

\* neither a request url nor a response url
ReqNoTarget ==
  Req(Undefined, Some("http://a.com"), PlainHeaders,
      Resp(Undefined, Some(<<>>)), Some(<<>>), Some("image"), Some("GET"))

\* no initiator, no Referer, no Origin
ReqNoSource ==
  Req(Some("http://b.com/"), Undefined, PlainHeaders,
      PlainResponse("http://b.com/"), Some(<<>>), Some("image"), Some("GET"))

\* a target that is no http/https URL
ReqFtpTarget ==
  Req(Some("ftp://b.com/file"), Some("http://a.com"), PlainHeaders,
      PlainResponse("ftp://b.com/file"), Some(<<>>), Some("other"), Some("GET"))

\* a source without a scheme
ReqNoScheme ==
  Req(Some("http://b.com/"), Some("a.com"), PlainHeaders,
      PlainResponse("http://b.com/"), Some(<<>>), Some("image"), Some("GET"))

\* a.com -> b.com without a response object
ReqNoResponse ==
  Req(Some("http://b.com/"), Some("http://a.com"), PlainHeaders,
      Undefined, Some(<<>>), Some("image"), Some("GET"))

\* a.com -> b.com whose response has no headers
ReqNoResponseHeaders ==
  Req(Some("http://b.com/"), Some("http://a.com"), PlainHeaders,
      Resp(Some("http://b.com/"), Undefined), Some(<<>>), Some("image"), Some("GET"))

\* a.com -> b.com without request headers
ReqNoRequestHeaders ==
  Req(Some("http://b.com/"), Some("http://a.com"), Undefined,
      PlainResponse("http://b.com/"), Some(<<>>), Some("image"), Some("GET"))

\* a.com -> b.com without labels
ReqNoLabels ==
  Req(Some("http://b.com/"), Some("http://a.com"), PlainHeaders,
      PlainResponse("http://b.com/"), Undefined, Some("image"), Some("GET"))

\* w.a.com -> a.com without a response object
ReqSameSldNoResponse ==
  Req(Some("http://a.com/"), Some("http://w.a.com"), PlainHeaders,
      Undefined, Some(<<>>), Some("image"), Some("GET"))

\* co.uk -> b.com: the source host is a public suffix, it has no second-level
\* domain
ReqSuffixSource ==
  Req(Some("http://b.com/"), Some("http://co.uk"), PlainHeaders,
      PlainResponse("http://b.com/"), Some(<<>>), Some("image"), Some("GET"))

\* a.com -> b.com.b.com: the target's sub-domain spells its second-level domain
ReqNestedSld ==
  Req(Some("http://b.com.b.com/"), Some("http://a.com"), PlainHeaders,
      PlainResponse("http://b.com.b.com/"), Some(<<>>), Some("image"), Some("GET"))

\* the records a batch file may hold
Requests ==
  { ReqCookie, ReqReferer, ReqSub, ReqSameSld, ReqSelf, ReqBack,
    ReqSourceFromReferer, ReqTargetFromResponse,
    ReqNoTarget, ReqNoSource, ReqFtpTarget, ReqNoScheme,
    ReqNoResponse, ReqNoResponseHeaders, ReqNoRequestHeaders, ReqNoLabels,
    ReqSameSldNoResponse, ReqSuffixSource, ReqNestedSld }

\* the options commander passes on: --first-party and --sld
Options == [firstParty : BOOLEAN, sld : BOOLEAN]

JsonName(i) == ToString(i) \o ".json"

\* the first k batch files of a directory
RECURSIVE JsonNames(_)
JsonNames(k) == IF k = 0 THEN <<>> ELSE Append(JsonNames(k - 1), JsonName(k))

\* what fs.readdirSync may return: batch files among other files
Listings ==
  { JsonNames(k) : k \in 0..MaxFiles }
  \cup { << "0.JSON", "json", "notes.txt" >>, << "0.txt", "1.json", "x.JSON" >> }

\* the directory argument, as the file system sees it: whether the path exists
\* as given, whether it exists relative to the directory of Util.js, whether it
\* is a directory, whether it ends with a path separator, and its entries
DirInputs ==
  [exists : {FALSE}, existsRel : BOOLEAN, isDirectory : {FALSE}, sep : {TRUE},
   listing : {<<>>}]
  \cup [exists : {TRUE}, existsRel : {FALSE}, isDirectory : {FALSE}, sep : {TRUE},
        listing : {<<>>}]
  \cup [exists : {TRUE}, existsRel : {FALSE}, isDirectory : {TRUE}, sep : BOOLEAN,
        listing : Listings]

\* Util.path(dir): "path" when the path exists, "null" when it exists nowhere,
\* and a ReferenceError (rel is not defined) when it only exists relative to
\* the directory of Util.js
UtilPath(d) ==
  IF d.exists THEN "path"
  ELSE IF d.existsRel THEN "ReferenceError"
  ELSE "null"

\* Util.isDir(path)
UtilIsDir(d) == d.isDirectory

\* a faulty variant of Util.batches: the dot of the extension is not required
UtilBatchesNoDot(d) == SelectSeq(d.listing, LAMBDA file : EndsWith(file, "json"))

\* Util.batches(path): the entries whose name ends with .json
UtilBatches(d) == SelectSeq(d.listing, LAMBDA file : EndsWith(file, ".json"))

(***************************************************************************)
(* Controller.js: the state of one run of the gexf command.                *)
(***************************************************************************)
VARIABLES
  dir,          \* the directory gexf was called with (undefined before the call)
  phase,        \* "start", "ingesting", "aggregated" (Wdg.attributes has returned),
                \* "written" (out.write and out.close were called), "exited"
  exit,         \* the exit code and the diagnostic, once the process has ended
  options,      \* ctx.options
  files,        \* the batch files, in the order Util.batches lists them
  pathOk,       \* whether path + file names the batch files
  graph,        \* ctx.graph: the Wdg of the run
  log,          \* ctx.log: the records counted per batch file
  piped,        \* the streams (1..Len(files)) pipe was called for
  ended,        \* the streams whose 'end' handler has run
  delivered,    \* per batch file, the records its 'data' events delivered
  calls,        \* the Wdg.process calls, in order: the stream and the record
  awaiting,     \* data handlers suspended at their await
  rejections,   \* rejected data handlers (a throw of Wdg.process) nobody handles
  outStream,    \* the write stream: "none", "opening", "open", "closed"
  outQueued,    \* what out.write was given and the stream has not yet written
  outFile,      \* the file at options.output
  nAttributes   \* how often Wdg.attributes was called

vars ==
  << dir, phase, exit, options, files, pathOk, graph, log, piped, ended, delivered,
     calls, awaiting, rejections, outStream, outQueued, outFile, nAttributes >>

ctxVars == << dir, options, files, pathOk, graph, log, piped, ended, delivered, calls >>

taskVars == << awaiting, rejections >>

outVars == << outStream, outQueued, outFile >>

\* the file at options.output as it was before the run: missing, or whatever
\* an earlier run left there
OutFileBefore == [kind |-> "before"]

Init ==
  /\ dir = Undefined
  /\ phase = "start"
  /\ exit = Undefined
  /\ options = [firstParty |-> FALSE, sld |-> FALSE]
  /\ files = <<>>
  /\ pathOk = TRUE
  /\ graph = EmptyGraph
  /\ log = <<>>
  /\ piped = {}
  /\ ended = {}
  /\ delivered = <<>>
  /\ calls = <<>>
  /\ awaiting = 0
  /\ rejections = 0
  /\ outStream = "none"
  /\ outQueued = Undefined
  /\ outFile = OutFileBefore
  /\ nAttributes = 0

\* the process is running its event loop
Alive == phase \in {"ingesting", "aggregated", "written"}

\* process.exit(code), or the end of the process on an uncaught exception
Exit(code, diagnostic) ==
  /\ phase' = "exited"
  /\ exit' = Some([code |-> code, diagnostic |-> diagnostic])

\* a faulty variant of Controller.process: pipe is called for every read stream
PipeAll(n) == 1..n

\* Controller.process, line 46: pipe is called for the first stream only
PipeFirst(n) == {1}

\* pipe, line 69: the stream is followed by another read stream
HasNext(i, n) == i < n

\* a faulty variant of the test of line 73: every read stream counts as the last
IsLastOrBefore(i, n) == i <= n

\* pipe, line 73: the stream is the last read stream
IsLast(i, n) == i = n

\* Controller.process(path, files, options): a read stream per batch file, the
\* write stream, and pipe(streams, 0, ctx) with a new Wdg
ControllerProcess(d, batches, o) ==
  /\ phase' = "ingesting"
  /\ dir' = Some(d)
  /\ files' = batches
  /\ pathOk' = d.sep
  /\ outStream' = "opening"
  /\ graph' = EmptyGraph
  /\ options' = o
  /\ log' = [i \in 1..Len(batches) |-> 0]
  /\ delivered' = [i \in 1..Len(batches) |-> <<>>]
  /\ piped' = PipeFirst(Len(batches))
  /\ UNCHANGED << exit, ended, calls, taskVars, outQueued, outFile, nAttributes >>

\* the state a failed gexf leaves: nothing but the exit
GexfFails(d, diagnostic) ==
  /\ Exit(1, diagnostic)
  /\ dir' = Some(d)
  /\ UNCHANGED << options, files, pathOk, graph, log, piped, ended, delivered, calls,
                  taskVars, outVars, nAttributes >>

\* Controller.gexf(dir, options)
gexf(d, o) ==
  /\ phase = "start"
  /\ LET path == UtilPath(d)
     IN  IF path = "ReferenceError"
           THEN GexfFails(d, "ReferenceError: rel is not defined")
         ELSE IF path = "null"
           THEN GexfFails(d, "Error: files not found at null")
         ELSE IF ~UtilIsDir(d)
           THEN GexfFails(d, "Error: path is not a directory")
         ELSE IF Len(UtilBatches(d)) = 0
           THEN GexfFails(d, "Error: path contains no JSON files")
         ELSE ControllerProcess(d, UtilBatches(d), o)

\* the microtask queue is empty: no data handler waits to resume, and no
\* rejection waits to be reported (it is reported, and ends the process, when
\* the queue has drained). The handlers of I/O events run only then
Drained == awaiting = 0 /\ rejections = 0

\* fs.createReadStream(path + file) of a file that does not exist: the 'error'
\* event of the stream has no listener
ReadError ==
  /\ Alive
  /\ Drained
  /\ ~pathOk
  /\ Exit(1, "Error: ENOENT")
  /\ UNCHANGED << ctxVars, taskVars, outVars, nAttributes >>

\* the streams that deliver: pipe was called for them and they have not ended
Flowing == IF pathOk THEN piped \ ended ELSE {}

\* pipe, lines 59-66: the effect of the 'data' handler, given what Wdg.process
\* returns. It counts the record and calls Wdg.process before its await; a
\* throw of Wdg.process rejects the handler's promise
Handled(i, r, result) ==
  /\ log' = [log EXCEPT ![i] = @ + 1]
  /\ delivered' = [delivered EXCEPT ![i] = Append(@, r)]
  /\ calls' = Append(calls, [stream |-> i, record |-> r])
  /\ graph' = result.graph
  /\ IF result.threw
       THEN rejections' = rejections + 1 /\ UNCHANGED awaiting
       ELSE awaiting' = awaiting + 1 /\ UNCHANGED rejections

\* pipe, lines 58-67: the 'data' handler of stream i gets record r
Data(i, r) ==
  /\ Alive
  /\ i \in Flowing
  /\ Len(calls) < MaxRecords
  /\ Handled(i, r, WdgProcess(graph, r, options))
  /\ UNCHANGED << dir, phase, exit, options, files, pathOk, piped, ended, outVars,
                  nAttributes >>

\* the rest of a data handler after its await: nothing is left to do
Resume ==
  /\ Alive
  /\ awaiting > 0
  /\ awaiting' = awaiting - 1
  /\ UNCHANGED << phase, exit, ctxVars, rejections, outVars, nAttributes >>

\* an unhandled rejection ends the process (Node.js 15 and later; earlier
\* versions only warn, and the run goes on)
UnhandledRejection ==
  /\ Alive
  /\ rejections > 0
  /\ Exit(1, "TypeError: Cannot read properties of undefined")
  /\ UNCHANGED << ctxVars, taskVars, outVars, nAttributes >>

\* pipe, lines 69-71: the 'end' handler of a stream that is not the last one
\* calls pipe for the next stream
EndPipe(i) ==
  /\ Alive
  /\ Drained
  /\ i \in Flowing
  /\ HasNext(i, Len(files))
  /\ ended' = ended \cup {i}
  /\ piped' = piped \cup {i + 1}
  /\ UNCHANGED << dir, phase, exit, options, files, pathOk, graph, log, delivered,
                  calls, taskVars, outVars, nAttributes >>

\* a faulty variant of the 'end' handler: every stream calls Wdg.attributes when
\* it ends, and the next stream is piped after it
EndAttributesEach(i) ==
  /\ Alive
  /\ Drained
  /\ i \in Flowing
  /\ ended' = ended \cup {i}
  /\ piped' = IF HasNext(i, Len(files)) THEN piped \cup {i + 1} ELSE piped
  /\ graph' = WdgAttributes(graph)
  /\ nAttributes' = 1
  /\ phase' = IF IsLast(i, Len(files)) THEN "aggregated" ELSE phase
  /\ UNCHANGED << dir, exit, options, files, pathOk, log, delivered, calls,
                  taskVars, outVars >>

\* pipe, lines 73-75: the 'end' handler of the last stream calls Wdg.attributes
\* and leaves the serialization to the promise's then
EndAttributes(i) ==
  /\ Alive
  /\ Drained
  /\ i \in Flowing
  /\ IsLast(i, Len(files))
  /\ ended' = ended \cup {i}
  /\ graph' = WdgAttributes(graph)
  /\ nAttributes' = nAttributes + 1
  /\ phase' = "aggregated"
  /\ UNCHANGED << dir, exit, options, files, pathOk, log, piped, delivered, calls,
                  taskVars, outVars >>

\* a faulty variant of the serialization: it does not wait for Wdg.attributes
SerializeEarly ==
  /\ phase \in {"ingesting", "aggregated"}
  /\ outQueued = Undefined
  /\ outQueued' = Some(graph)
  /\ phase' = IF phase = "aggregated" THEN "written" ELSE phase
  /\ UNCHANGED << exit, ctxVars, taskVars, outStream, outFile, nAttributes >>

\* pipe, lines 76-80: gexf.write(ctx.graph.get()), out.write(o), out.close()
Serialize ==
  /\ phase = "aggregated"
  /\ outQueued' = Some(graph)
  /\ phase' = "written"
  /\ UNCHANGED << exit, ctxVars, taskVars, outStream, outFile, nAttributes >>

\* the write stream opens its file: the file is created, or truncated
OutOpen ==
  /\ Alive
  /\ Drained
  /\ outStream = "opening"
  /\ outStream' = "open"
  /\ outFile' = [kind |-> "empty"]
  /\ UNCHANGED << phase, exit, ctxVars, taskVars, outQueued, nAttributes >>

\* the write stream writes what it was given, and closes
OutFlush ==
  /\ Alive
  /\ Drained
  /\ outStream = "open"
  /\ IsDef(outQueued)
  /\ outFile' = [kind |-> "gexf", graph |-> outQueued[1]]
  /\ outQueued' = Undefined
  /\ outStream' = "closed"
  /\ UNCHANGED << phase, exit, ctxVars, taskVars, nAttributes >>

\* nothing is left to do: the process ends with exit code 0
ExitSuccess ==
  /\ phase = "written"
  /\ outStream = "closed"
  /\ awaiting = 0
  /\ rejections = 0
  /\ Exit(0, "")
  /\ UNCHANGED << ctxVars, taskVars, outVars, nAttributes >>

Next ==
  \/ \E d \in DirInputs, o \in Options : gexf(d, o)
  \/ ReadError
  \/ \E i \in Flowing, r \in Requests : Data(i, r)
  \/ Resume
  \/ UnhandledRejection
  \/ \E i \in Flowing : EndPipe(i)
  \/ \E i \in Flowing : EndAttributes(i)
  \/ Serialize
  \/ OutOpen
  \/ OutFlush
  \/ ExitSuccess

Spec == Init /\ [][Next]_vars

(***************************************************************************)
(* Properties of the graph that Wdg.process builds.                        *)
(***************************************************************************)
Last(seq) == seq[Len(seq)]

\* the record of the Wdg.process call a step makes
Processed == Last(calls').record

\* source and target of r are resolved, and both are URLs with an explicit
\* http or https scheme
Resolves(r) ==
  /\ IsDef(UtilSource(r))
  /\ IsDef(UtilTarget(r))
  /\ IsURL(UtilSource(r)[1], [protocols |-> {"http", "https"}, require_protocol |-> TRUE])
  /\ IsURL(UtilTarget(r)[1], [protocols |-> {"http", "https"}, require_protocol |-> TRUE])

\* the hosts of source and target of r have one second-level domain
SharesSld(r) ==
  /\ Resolves(r)
  /\ getDomain(Hostname(UtilSource(r)[1])) = getDomain(Hostname(UtilTarget(r)[1]))

\* r passed the identity resolution of Wdg.process under the run's options
Accepted(r) == Resolves(r) /\ (SharesSld(r) => options.firstParty)

\* C1: in every reachable state, for every combination of firstParty and sld,
\* no edge of the graph has its source equal to its target.
C1_NoSelfLoop ==
  \A k \in DOMAIN graph.edges : graph.edges[k].source # graph.edges[k].target

\* C2: with firstParty = false, Wdg.process on a record whose source and target
\* hosts share a second-level domain leaves the graph unchanged and evaluates
\* no extract (so nothing can throw, even for a record without a response), and
\* a run of such records only has no node and no edge.
C2_FirstPartySkipped ==
  /\ [][(calls' # calls /\ ~options.firstParty /\ SharesSld(Processed))
          => (graph' = graph /\ rejections' = rejections)]_vars
  /\ []((~options.firstParty /\ \A k \in DOMAIN calls : SharesSld(calls[k].record))
          => (graph.edges = <<>> /\ DOMAIN graph.nodes = {}))

\* a run with firstParty = false that processed two different records of one
\* second-level domain, one of them without a response, and was written
C2_Witness ==
  /\ ~options.firstParty
  /\ Len(calls) = 2
  /\ calls[1].record = ReqSameSldNoResponse
  /\ calls[2].record \in {ReqSameSld, ReqSelf}
  /\ phase = "written"
  /\ graph = EmptyGraph

\* C3: once a record has passed identity resolution, no extract fails: for
\* every processed record that was accepted, every feature's extract returns a
\* value, also when the response, the headers or the labels are absent.
C3_ExtractsTotal ==
  \A k \in DOMAIN calls :
    Accepted(calls[k].record)
      => \A val \in FeatureNames : Extract(val, calls[k].record, Num(0)) # TypeError

\* C4: in every reachable state, the attribute map of every edge has exactly
\* the registered feature names as its keys, when the edge is created and
\* after every update.
C4_EdgeKeys ==
  \A k \in DOMAIN graph.edges : DOMAIN graph.edges[k].attributes = FeatureNames

\* an edge that was created by one record and updated by a second one
C4_Witness ==
  /\ Len(graph.edges) = 1
  /\ graph.edges[1].attributes.count = Num(2)
  /\ graph.edges[1].attributes.GET = Num(1)

\* C5: Wdg.process on a record whose source or target is absent or is no URL
\* with an explicit http/https scheme leaves the graph unchanged and raises no
\* error; the stream keeps flowing, and the records after it are processed as
\* if it had not been there.
C5_RejectedSkipped ==
  [][calls' # calls =>
       /\ ~Resolves(Processed)
            => (graph' = graph /\ rejections' = rejections /\ phase' = phase
                /\ Flowing' = Flowing)
       /\ (\A k \in DOMAIN calls : ~Resolves(calls[k].record))
            => graph' = WdgProcess(EmptyGraph, Processed, options).graph]_vars

\* a record without a source was skipped, and the record after it made an edge
C5_Witness ==
  /\ Len(calls) = 2
  /\ calls[1].record = ReqNoSource
  /\ calls[2].record = ReqCookie
  /\ rejections = 0
  /\ Len(graph.edges) = 1

(***************************************************************************)
(* Properties of a run of Controller.gexf.                                 *)
(***************************************************************************)
\* every read stream has ended
AllEnded == ended = 1..Len(files)

\* the records of the calls made for stream i, in call order
RECURSIVE CallsOf(_, _)
CallsOf(cs, i) ==
  IF cs = <<>> THEN <<>>
  ELSE IF Head(cs).stream = i THEN <<Head(cs).record>> \o CallsOf(Tail(cs), i)
  ELSE CallsOf(Tail(cs), i)

\* the graph after Wdg.process was called for the records of cs, one after
\* the other
RECURSIVE ProcessAll(_, _, _)
ProcessAll(g, cs, o) ==
  IF cs = <<>> THEN g
  ELSE ProcessAll(WdgProcess(g, Head(cs).record, o).graph, Tail(cs), o)

\* C6: aggregation (Wdg.attributes) runs at most once, and once in a run that
\* ends well; it runs only after every stream has ended, and no record is
\* processed after it; the graph is serialized only after aggregation.
C6_AggregationOnceAfterIngestion ==
  /\ [](nAttributes <= 1)
  /\ [](nAttributes = 1 => AllEnded /\ awaiting = 0)
  /\ [][nAttributes >= 1 => calls' = calls]_vars
  /\ []((phase = "written" \/ IsDef(outQueued) \/ outFile.kind = "gexf")
          => nAttributes = 1)
  /\ []((IsDef(exit) /\ exit[1].code = 0) => nAttributes = 1)

\* a run over two batch files with a record each that ended with exit code 0
C6_Witness ==
  /\ IsDef(exit)
  /\ exit[1].code = 0
  /\ Len(files) = 2
  /\ \A i \in 1..2 : Len(delivered[i]) = 1
  /\ nAttributes = 1

\* C7: records are ingested one at a time in one total order: the calls of
\* Wdg.process go through the batches in order, the calls for a batch are its
\* records in arrival order, at most one stream delivers at a time and none
\* after Wdg.attributes, and before aggregation the graph is what the calls
\* give when made one after the other.
C7_OneAtATimeInBatchOrder ==
  /\ \A j, k \in DOMAIN calls : j < k => calls[j].stream <= calls[k].stream
  /\ \A i \in DOMAIN delivered : CallsOf(calls, i) = delivered[i]
  /\ Cardinality(Flowing) <= 1
  /\ nAttributes >= 1 => Flowing = {}
  /\ nAttributes = 0 => graph = ProcessAll(EmptyGraph, calls, options)

\* two batches delivered a record each, the handler of the second record has
\* not resumed yet, and the graph has an edge of each record
C7_Witness ==
  /\ Len(calls) = 2
  /\ calls[1].stream = 1
  /\ calls[2].stream = 2
  /\ awaiting = 1
  /\ Len(graph.edges) = 2

\* C8, as stated: before ingestion has completed and aggregation
\* has run, the file at options.output is not created, truncated or written.
C8_UntouchedBeforeAggregation == nAttributes = 0 => outFile = OutFileBefore

\* C8, amended: graph content is written to the output file only after every
\* stream has ended and aggregation has run once, and it is the aggregated
\* graph; before that the run changes the file in one way only, it creates or
\* truncates it to an empty file when the write stream opens.
C8_ContentOnlyAfterAggregation ==
  /\ nAttributes = 0 => outFile \in {OutFileBefore, [kind |-> "empty"]}
  /\ outFile.kind = "gexf" => (nAttributes = 1 /\ AllEnded /\ outFile.graph = graph)
  /\ (IsDef(exit) /\ exit[1].code # 0) => outFile.kind # "gexf"

\* a run that processed records, aborted during ingestion, and left the
\* output file empty
C8_Witness ==
  /\ IsDef(exit)
  /\ exit[1].code = 1
  /\ Len(calls) >= 1
  /\ nAttributes = 0
  /\ outFile = [kind |-> "empty"]

\* the directory holds no entry whose name ends with .json
NoJsonFile(d) == \A k \in DOMAIN d.listing : ~EndsWith(d.listing[k], ".json")

\* the entries of the directory whose name ends with .json, in listing order
JsonFiles(d) == SelectSeq(d.listing, LAMBDA file : EndsWith(file, ".json"))

TwoBatchRun ==
  /\ options = [firstParty |-> FALSE, sld |-> FALSE]
  /\ Len(files) = 2
  /\ delivered[1] = << ReqCookie >>
  /\ Len(delivered[2]) = 1
  /\ delivered[2][1] \in {ReqReferer, ReqSourceFromReferer}
  /\ nAttributes = 1

\* C10: after the two-batch scenario the graph has exactly the nodes a.com and
\* b.com and one edge, and node b.com has count = 2, cookiesSet = 1/1 and
\* firstPartyDisclosed = 1/2.
C10_TwoBatchScenario ==
  TwoBatchRun =>
    /\ DOMAIN graph.nodes = {"a.com", "b.com"}
    /\ Len(graph.edges) = 1
    /\ graph.edges[1].source = "a.com"
    /\ graph.edges[1].target = "b.com"
    /\ graph.nodes["b.com"].count = [type |-> "number", num |-> 2, den |-> 1]
    /\ graph.nodes["b.com"].cookiesSet = [type |-> "number", num |-> 1, den |-> 1]
    /\ graph.nodes["b.com"].firstPartyDisclosed = [type |-> "number", num |-> 1, den |-> 2]

\* the scenario has run and its graph was written to the output file
C10_Witness ==
  /\ TwoBatchRun
  /\ delivered[2] = << ReqReferer >>
  /\ outFile.kind = "gexf"
  /\ outFile.graph = graph

(***************************************************************************)
(* Properties of the edges and of the aggregated node attributes.          *)
(***************************************************************************)
\* the second-level domain of the host of a URL (undefined when it has none)
SldOf(u) == getDomain(Hostname(u))

\* r is accepted, and its source and target hosts have the second-level
\* domains s and t
MapsToSld(r, s, t) ==
  /\ Accepted(r)
  /\ SldOf(UtilSource(r)[1]) = Some(s)
  /\ SldOf(UtilTarget(r)[1]) = Some(t)

\* the second-level domains of the hosts of the processed records
SldsSeen ==
  LET resolved == { j \in DOMAIN calls : Resolves(calls[j].record) }
      slds     == { SldOf(UtilSource(calls[k].record)[1]) : k \in resolved }
                  \cup { SldOf(UtilTarget(calls[k].record)[1]) : k \in resolved }
  IN  { d[1] : d \in slds \ {Undefined} }

\* with sld = true, the accepted requests from hosts of one second-level domain
\* s to hosts of one second-level domain t are folded into one edge s -> t whose
\* count is the number of those requests
FoldedBySld ==
  \A s, t \in SldsSeen :
    LET n == Cardinality({ k \in DOMAIN calls : MapsToSld(calls[k].record, s, t) })
    IN  n > 0 =>
          /\ Cardinality(EdgeIndexes(graph, s, t)) = 1
          /\ graph.edges[EdgeIndex(graph, s, t)].attributes.count = Num(n)

\* C11: with sld = true, the accepted requests that share the second-level
\* domains of source and target are folded into a single edge whose count is
\* their number (as long as no extract threw, C3), and every node key in the
\* graph is a second-level domain.
C11_SldFolding ==
  options.sld =>
    /\ \A n \in DOMAIN graph.nodes : getDomain(n) = Some(n)
    /\ rejections = 0 => FoldedBySld

\* the edges of the graph into node n, in graph order
EdgesInto(n) == SelectSeq(graph.edges, LAMBDA e : e.target = n)

\* the sum of the accumulators of feature f over edges
RECURSIVE SumOver(_, _)
SumOver(edges, f) ==
  IF edges = <<>> THEN 0
  ELSE ToNumber(Head(edges).attributes[f]) + SumOver(Tail(edges), f)

\* the features whose set is a ratio, and those among them that divide by the
\* indegree
RatioFeatures == FeatureNames \ {"count", "maxSubdomainDepth"}

DividesByIndegree ==
  { "cookiesSet", "avgReqPerNeighbor", "avgQpPerNeighbor", "avgRhPerNeighbor",
    "avgRespHPerNeighbor", "avgCookieFieldsPerNeighbor" }

\* dividend and divisor of the ratio of feature f at node n
Dividend(n, f) == SumOver(EdgesInto(n), IF f = "avgReqPerNeighbor" THEN "count" ELSE f)

Divisor(n, f) ==
  IF f = "thirdPartyCookie" THEN SumOver(EdgesInto(n), "cookiesSet")
  ELSE IF f \in DividesByIndegree THEN Len(EdgesInto(n))
  ELSE SumOver(EdgesInto(n), "count")

\* C12: after aggregation, for every node and every feature whose set is a
\* ratio, the value is a number: 0 when the divisor (accumulated count,
\* indegree, or accumulated cookiesSet) is 0, dividend / divisor otherwise.
C12_RatioGuarded ==
  nAttributes = 1 =>
    \A n \in DOMAIN graph.nodes : \A f \in RatioFeatures :
      /\ graph.nodes[n][f].type = "number"
      /\ graph.nodes[n][f] = IF Divisor(n, f) = 0 THEN Num(0)
                             ELSE Frac(Dividend(n, f), Divisor(n, f))

\* an aggregated graph with a node without in-edges (every divisor is 0) and a
\* node whose ratios are 1/2 and, for a cookiesSet of 0, 0
C12_Witness ==
  /\ nAttributes = 1
  /\ DOMAIN graph.nodes = {"a.com", "b.com"}
  /\ Len(EdgesInto("a.com")) = 0
  /\ graph.nodes["b.com"].firstPartyDisclosed = Frac(1, 2)
  /\ Divisor("b.com", "thirdPartyCookie") = 0

\* edges in the order p (a permutation of its positions)
Permuted(edges, p) == [i \in 1..Len(edges) |-> edges[p[i]]]

\* the final value of every feature of a node whose in-edges are folded in the
\* order given
FinalAttributes(edges) ==
  SetAll(ReduceEdges(edges, [val \in FeatureNames |-> 0]), Len(edges))

\* C13: the final attributes Wdg.attributes gives a node are the same for
\* every order in which its in-edges are folded, for the sum-based features
\* and for maxSubdomainDepth.
C13_FoldOrderIndependent ==
  nAttributes = 1 =>
    \A n \in DOMAIN graph.nodes :
      \A p \in Permutations(1..Len(EdgesInto(n))) :
        \A f \in FeatureNames :
          graph.nodes[n][f] = FinalAttributes(Permuted(EdgesInto(n), p))[f]

\* an aggregated node with two in-edges that differ in count, in a sum and in
\* maxSubdomainDepth
C13_Witness ==
  /\ nAttributes = 1
  /\ \E n \in DOMAIN graph.nodes :
       /\ Len(EdgesInto(n)) = 2
       /\ EdgesInto(n)[1].attributes.maxSubdomainDepth
            # EdgesInto(n)[2].attributes.maxSubdomainDepth
       /\ EdgesInto(n)[1].attributes.avgUrlLength # EdgesInto(n)[2].attributes.avgUrlLength
       /\ EdgesInto(n)[1].attributes.cookiesSet # EdgesInto(n)[2].attributes.cookiesSet

\* C14: once Wdg.attributes has run, nothing changes the graph any more in the
\* run (no Wdg.process, addNode or addEdge), so the aggregated attributes of
\* every node reflect all the edges of the graph.
C14_TerminalAfterAggregation ==
  /\ [][nAttributes >= 1 => (graph' = graph /\ calls' = calls)]_vars
  /\ [](nAttributes >= 1 =>
          \A n \in DOMAIN graph.nodes : \A f \in FeatureNames :
            graph.nodes[n][f] = FinalAttributes(EdgesInto(n))[f])

\* a run over two batch files has aggregated a graph of two edges and ended
C14_Witness ==
  /\ nAttributes = 1
  /\ Len(files) = 2
  /\ Len(graph.edges) = 2
  /\ phase = "exited"

\* the node key a label stands for: the string, or "null"
LabelKey(label) == IF label.type = "string" THEN label.str ELSE "null"

\* C15, as stated: after aggregation the attribute map of every node carries
\* label (equal to the node key), one final value per registered feature, and
\* an indegree equal to the number of its in-edges.
C15_NodeCarriesIndegree ==
  nAttributes = 1 =>
    \A n \in DOMAIN graph.nodes :
      /\ DOMAIN graph.nodes[n] = FeatureNames \cup {"label", "indegree"}
      /\ graph.nodes[n].label = Str(n)
      /\ graph.nodes[n].indegree = Num(Len(EdgesInto(n)))

\* C15, amended: after aggregation the attribute map of every node has exactly
\* the keys label and the registered feature names; label is the host identity
\* Wdg.process gave the node (its string form is the node key), every feature
\* holds a number, the one set computes from the fold of the in-edges and
\* their number, and no indegree is stored; aggregation leaves the node set
\* and every edge with its raw accumulators unchanged.
C15_NodeAttributesAfterAggregation ==
  /\ [](nAttributes = 1 =>
          \A n \in DOMAIN graph.nodes :
            /\ DOMAIN graph.nodes[n] = FeatureNames \cup {"label"}
            /\ LabelKey(graph.nodes[n].label) = n
            /\ \A f \in FeatureNames :
                 /\ graph.nodes[n][f].type = "number"
                 /\ graph.nodes[n][f] = FinalAttributes(EdgesInto(n))[f])
  /\ [][nAttributes' # nAttributes =>
          (graph'.edges = graph.edges /\ DOMAIN graph'.nodes = DOMAIN graph.nodes)]_vars

\* an aggregated graph with an edge that two records made, between two nodes
C15_Witness ==
  /\ nAttributes = 1
  /\ Cardinality(DOMAIN graph.nodes) = 2
  /\ Len(graph.edges) = 1
  /\ graph.edges[1].attributes.count = Num(2)
  /\ graph.nodes[graph.edges[1].target].count = Num(2)

(***************************************************************************)
(* Wdg.addNode by itself: calls with any node id and any attribute map, on *)
(* the graphs such calls build.                                            *)
(***************************************************************************)
\* the node ids, attribute keys and attribute values of the calls
NodeIds == {"a.com", "b.com"}

AttrKeys == {"label", "count"}

AttrValues == {Str("a.com"), Num(1)}

\* the attribute maps a call may pass: any map from some of the keys
AttrMaps == UNION { [keys -> AttrValues] : keys \in SUBSET AttrKeys }

\* a call addNode(node, attrs) on the graph; calls holds the last call
AddNodeCall(node, attrs) ==
  /\ graph' = addNode(graph, node, attrs)
  /\ calls' = << [node |-> node, attrs |-> attrs] >>
  /\ UNCHANGED << dir, phase, exit, options, files, pathOk, log, piped, ended,
                  delivered, taskVars, outVars, nAttributes >>

NextAddNode == \E node \in NodeIds, attrs \in AttrMaps : AddNodeCall(node, attrs)

SpecAddNode == Init /\ [][NextAddNode]_vars

\* C16: addNode is idempotent and merges: a call addNode(n, a) adds n to the
\* node set and nothing else; a new node gets the map a; an existing node gets
\* the keys of a overwritten and keeps its other attributes; the other nodes
\* and the edges stay; and the same call once more changes nothing.
C16_AddNodeIdempotent ==
  [][calls' # calls \/ graph' # graph =>
       LET n == calls'[1].node
           a == calls'[1].attrs
       IN  /\ DOMAIN graph'.nodes = DOMAIN graph.nodes \cup {n}
           /\ \A k \in DOMAIN a : graph'.nodes[n][k] = a[k]
           /\ IF n \in DOMAIN graph.nodes
                THEN /\ DOMAIN graph'.nodes[n] = DOMAIN graph.nodes[n] \cup DOMAIN a
                     /\ \A k \in DOMAIN graph.nodes[n] \ DOMAIN a :
                          graph'.nodes[n][k] = graph.nodes[n][k]
                ELSE DOMAIN graph'.nodes[n] = DOMAIN a
           /\ \A m \in DOMAIN graph.nodes \ {n} : graph'.nodes[m] = graph.nodes[m]
           /\ graph'.edges = graph.edges
           /\ addNode(graph', n, a) = graph']_vars

\* a node that has a count was added again with a label only
C16_Witness ==
  /\ calls # <<>>
  /\ calls[1].node = "a.com"
  /\ calls[1].attrs = [label |-> Str("a.com")]
  /\ graph.nodes["a.com"] = [label |-> Str("a.com"), count |-> Num(1)]
  /\ "b.com" \in DOMAIN graph.nodes

(***************************************************************************)
(* Properties of a Wdg.process call and of the edges it keeps.             *)
(***************************************************************************)
\* C17: a Wdg.process call is all-or-nothing on the graph: it either leaves
\* the graph as it was or adds both end nodes and creates or updates the edge
\* with every feature; so a call that changes the graph changes an edge, and
\* in no reachable state is there a node that no edge starts or ends at.
C17_ProcessAllOrNothing ==
  /\ [][calls' # calls /\ graph' # graph => graph'.edges # graph.edges]_vars
  /\ [](\A n \in DOMAIN graph.nodes :
          \E k \in DOMAIN graph.edges :
            graph.edges[k].source = n \/ graph.edges[k].target = n)

\* the node key Wdg.process gives the host of the URL u under the run's options
KeyOf(u) == HostKey(Hostname(u), SldOf(u), options)

\* r is accepted, and Wdg.process maps it to the ordered pair (s, t)
MapsTo(r, s, t) ==
  /\ Accepted(r)
  /\ KeyOf(UtilSource(r)[1]) = s
  /\ KeyOf(UtilTarget(r)[1]) = t

\* the number of processed records that are accepted and mapped to (s, t)
AcceptedCount(s, t) ==
  Cardinality({ k \in DOMAIN calls : MapsTo(calls[k].record, s, t) })

\* the node keys of the accepted records that were processed
KeysSeen ==
  LET accepted == { j \in DOMAIN calls : Accepted(calls[j].record) }
  IN  { KeyOf(UtilSource(calls[k].record)[1]) : k \in accepted }
      \cup { KeyOf(UtilTarget(calls[k].record)[1]) : k \in accepted }

\* C18: for every ordered pair (s, t) the graph has at most one edge s -> t;
\* it has one exactly when at least one processed record was accepted and
\* mapped to (s, t), and the count of that edge is the number of those records.
C18_OneEdgePerPairCounted ==
  \A s, t \in KeysSeen \cup DOMAIN graph.nodes :
    /\ Cardinality(EdgeIndexes(graph, s, t)) <= 1
    /\ HasEdge(graph, s, t) <=> AcceptedCount(s, t) > 0
    /\ HasEdge(graph, s, t) =>
         graph.edges[EdgeIndex(graph, s, t)].attributes.count = Num(AcceptedCount(s, t))

\* the number of processed records that are accepted and whose target is
\* mapped to the node n
AcceptedInto(n) ==
  Cardinality({ k \in DOMAIN calls :
                  /\ Accepted(calls[k].record)
                  /\ KeyOf(UtilTarget(calls[k].record)[1]) = n })

\* C19: after aggregation the count of every node is the number of accepted
\* requests whose target is the node, which is the sum of the counts of its
\* in-edges; its out-edges contribute nothing; and a node without in-edges has
\* count 0 and every other feature 0.
C19_NodeCountIsInEdgeCount ==
  nAttributes = 1 =>
    \A n \in DOMAIN graph.nodes :
      /\ graph.nodes[n].count = Num(SumOver(EdgesInto(n), "count"))
      /\ graph.nodes[n].count = Num(AcceptedInto(n))
      /\ EdgesInto(n) = <<>> => \A f \in FeatureNames : graph.nodes[n][f] = Num(0)

\* an aggregated graph whose one edge a.com -> b.com carries two requests: the
\* count of b.com is 2, and a.com, which has the out-edge only, has count 0
C19_Witness ==
  /\ nAttributes = 1
  /\ DOMAIN graph.nodes = {"a.com", "b.com"}
  /\ Len(graph.edges) = 1
  /\ graph.edges[1].source = "a.com"
  /\ graph.edges[1].attributes.count = Num(2)
  /\ graph.nodes["b.com"].count = Num(2)
  /\ graph.nodes["a.com"].count = Num(0)

\* C20: the extract of avgReqPerNeighbor returns the accumulator it was given,
\* so on every edge avgReqPerNeighbor is the number 0, and every attribute of
\* every edge is a number, never null or undefined.
C20_EdgeAttributesNumeric ==
  \A k \in DOMAIN graph.edges :
    /\ graph.edges[k].attributes.avgReqPerNeighbor = Num(0)
    /\ \A f \in DOMAIN graph.edges[k].attributes :
         graph.edges[k].attributes[f].type = "number"

(***************************************************************************)
(* Properties of single features.                                          *)
(***************************************************************************)
\* the number of labels of a host name below its second-level domain (0 for
\* a host that is its second-level domain, or that has none)
LabelsBelowSld(hostname) ==
  IF IsDef(getDomain(hostname))
    THEN Len(Split(hostname, ".")) - Len(Split(getDomain(hostname)[1], "."))
    ELSE 0

\* the greatest number in a set of naturals, 0 for the empty set
MaxOf(S) == IF S = {} THEN 0 ELSE CHOOSE x \in S : \A y \in S : y <= x

\* the greatest number of labels below the second-level domain among the
\* targets of the processed records that were accepted and mapped to (s, t)
DeepestTarget(s, t) ==
  MaxOf({ LabelsBelowSld(Hostname(UtilTarget(calls[k].record)[1])) :
            k \in { j \in DOMAIN calls : MapsTo(calls[j].record, s, t) } })

\* C21: on every edge maxSubdomainDepth never decreases from one request to
\* the next and is the greatest number of labels below the second-level domain
\* among the target hosts of the requests mapped to the edge; after aggregation
\* the maxSubdomainDepth of a node is the greatest value on its in-edges.
C21_MaxSubdomainDepth ==
  /\ [](\A k \in DOMAIN graph.edges :
          graph.edges[k].attributes.maxSubdomainDepth
            = Num(DeepestTarget(graph.edges[k].source, graph.edges[k].target)))
  /\ [](nAttributes = 1 =>
          \A n \in DOMAIN graph.nodes :
            graph.nodes[n].maxSubdomainDepth
              = Num(MaxOf({ ToNumber(EdgesInto(n)[i].attributes.maxSubdomainDepth) :
                              i \in DOMAIN EdgesInto(n) })))
  /\ [][\A k \in DOMAIN graph.edges :
          ToNumber(graph'.edges[k].attributes.maxSubdomainDepth)
            >= ToNumber(graph.edges[k].attributes.maxSubdomainDepth)]_vars

\* C22: in every reachable state, for every combination of options, every
\* node of the graph is an end of at least one edge whose other end is a
\* different node.
C22_NoIsolatedNode ==
  \A n \in DOMAIN graph.nodes :
    \E k \in DOMAIN graph.edges :
      /\ n \in {graph.edges[k].source, graph.edges[k].target}
      /\ graph.edges[k].source # graph.edges[k].target

\* C23: on every edge thirdPartyCookie is at most cookiesSet; with
\* firstParty = false the two are equal on every edge, and after aggregation
\* the thirdPartyCookie of every node is 1 when the cookiesSet accumulated over
\* its in-edges is greater than 0, and 0 otherwise.
C23_ThirdPartyCookieBounded ==
  /\ \A k \in DOMAIN graph.edges :
       /\ ToNumber(graph.edges[k].attributes.thirdPartyCookie)
            <= ToNumber(graph.edges[k].attributes.cookiesSet)
       /\ ~options.firstParty =>
            graph.edges[k].attributes.thirdPartyCookie
              = graph.edges[k].attributes.cookiesSet
  /\ (nAttributes = 1 /\ ~options.firstParty) =>
       \A n \in DOMAIN graph.nodes :
         graph.nodes[n].thirdPartyCookie
           = IF SumOver(EdgesInto(n), "cookiesSet") > 0 THEN Num(1) ELSE Num(0)

\* an aggregated graph of a run with firstParty = false: b.com got a request
\* from a.com with a Set-Cookie header, and a.com got one from b.com without
C23_Witness ==
  /\ ~options.firstParty
  /\ nAttributes = 1
  /\ Len(graph.edges) = 2
  /\ \E k \in DOMAIN graph.edges :
       /\ graph.edges[k].target = "b.com"
       /\ graph.edges[k].attributes.cookiesSet = Num(1)
       /\ graph.edges[k].attributes.thirdPartyCookie = Num(1)
  /\ graph.nodes["b.com"].thirdPartyCookie = Num(1)
  /\ "a.com" \in DOMAIN graph.nodes
  /\ Len(EdgesInto("a.com")) = 1
  /\ graph.nodes["a.com"].thirdPartyCookie = Num(0)

====
